---- MODULE Spec2Model ----
(***************************************************************************)
(* BTF-Dumper (main.go): conversion of a BTF type store into exported      *)
(* nodes, the full dump (ReadAllBTFType) and the closure walk              *)
(* (WalkForTargetTypes), and the JSON document DumpAll writes.             *)
(*                                                                         *)
(* The type store is the value btf.LoadSpecFromReader returns.  A node is  *)
(* a record with the fields of the cilium btf.Type it stands for; a        *)
(* reference to another type (a Go pointer into the store) is the ID of    *)
(* the node it points to.  Scalar payload that main.go copies verbatim     *)
(* (sizes, offsets, encodings, linkages, counts) is left out of the nodes. *)
(***************************************************************************)
EXTENDS Integers, Sequences, FiniteSets, TLC

VARIABLES store, isDereference, isAsMap, targetTypes,
          pc, nextTarget, queue, results, iter, types,
          conversions, panicked, output

vars == <<store, isDereference, isAsMap, targetTypes,
          pc, nextTarget, queue, results, iter, types,
          conversions, panicked, output>>

(***************************************************************************)
(* Bounds of the model.                                                    *)
(***************************************************************************)
\* number of type IDs of a store (ID 0 is void)
NumTypes == 4
\* longest member, value, parameter or variable list of a node
MaxMembers == 2
\* longest -target list
MaxTargets == 2
\* the per-ID conversion counter saturates here
MaxConversions == 3

TypeIDs == 0 .. (NumTypes - 1)

\* what btf.UnderlyingType returns for a chain it cannot resolve: a
\* *btf.cycle, which is no type of the store
CycleRef == -1

EmptyMap == [x \in {} |-> x]

Last(S) == CHOOSE x \in S : \A y \in S : y <= x

RECURSIVE Perms(_)
Perms(S) ==
    IF S = {} THEN {<<>>}
    ELSE UNION {{<<x>> \o p : p \in Perms(S \ {x})} : x \in S}

(***************************************************************************)
(* The reader (github.com/cilium/ebpf/btf), at the calls main.go makes.    *)
(***************************************************************************)
\* reader.TypeID(t): the ID of a type of the store, or (0, err)
TypeID(t) ==
    IF t \in DOMAIN store THEN [id |-> t, ok |-> TRUE]
    ELSE [id |-> 0, ok |-> FALSE]

\* reader.TypeByID(id)
TypeByID(id) == store[id]

Qualifiers == {"Volatile", "Const", "Restrict"}

\* btf.UnderlyingType(t): follow qualifiers and typedefs; a chain that does
\* not end within the library's depth limit is a cycle.  Every chain longer
\* than the store has nodes repeats a node, so it never ends.
RECURSIVE Underlying(_, _)
Underlying(t, depth) ==
    IF depth > NumTypes THEN CycleRef
    ELSE IF store[t].kind \in Qualifiers \cup {"Typedef"}
         THEN Underlying(store[t].Type, depth + 1)
         ELSE t

UnderlyingType(t) == Underlying(t, 0)

\* the types the store indexes by name: named ones
NamedTypes(name) ==
    {i \in DOMAIN store : "Name" \in DOMAIN store[i] /\ store[i].Name = name
                          /\ name # ""}

\* reader.AnyTypeByName(name)
AnyTypeByName(name) ==
    LET found == NamedTypes(name)
    IN  IF found = {} THEN [err |-> "NotFound", id |-> 0]
        ELSE IF Cardinality(found) > 1 THEN [err |-> "MultipleMatches", id |-> 0]
        ELSE [err |-> "", id |-> CHOOSE i \in found : TRUE]

\* reader.TypeByName(name, &found): the type of that name with the Go type
\* of the value found holds
TypeByName(name, kind) ==
    LET found == {i \in NamedTypes(name) : store[i].kind = kind}
    IN  IF found = {} THEN [err |-> "NotFound", id |-> 0]
        ELSE IF Cardinality(found) > 1 THEN [err |-> "MultipleMatches", id |-> 0]
        ELSE [err |-> "", id |-> CHOOSE i \in found : TRUE]

(***************************************************************************)
(* main.go                                                                 *)
(***************************************************************************)
\* strings.TrimSpace on the category tokens the model draws
TrimSpace(s) == IF s = " struct " THEN "struct" ELSE s

\* the Go type of the lookup key, or "panic"
NameToBTFType(name) ==
    LET n == TrimSpace(name)
    IN  CASE n = "void" -> "Void"
          [] n = "int" -> "Int"
          [] n = "pointer" -> "Pointer"
          [] n = "array" -> "Array"
          [] n = "struct" -> "Struct"
          [] n = "union" -> "Union"
          [] n = "enum" -> "Enum"
          [] n = "fwd" -> "Fwd"
          [] n = "typedef" -> "Typedef"
          [] n = "volatile" -> "Volatile"
          [] n = "restrict" -> "Restrict"
          [] n = "func" -> "Func"
          [] n = "funcproto" -> "FuncProto"
          [] n = "var" -> "Var"
          [] n = "Datasec" -> "Datasec"
          [] n = "Float" -> "Float"
          [] OTHER -> "panic"

GetTypeIDIgnoresFlag(t) == TypeID(t).id

GetTypeID(t) ==
    IF isDereference
    THEN TypeID(UnderlyingType(t)).id
    ELSE TypeID(t).id

BTFVoidParser(t) == [TypeName |-> "void"]

BTFIntParser(t) == [TypeName |-> "int", Name |-> t.Name]

BTFPointerParser(t) == [TypeName |-> "pointer", TargetType |-> GetTypeID(t.Target)]

BTFArrayParser(t) ==
    [TypeName |-> "array", IndexType |-> GetTypeID(t.Index),
     ElemType |-> GetTypeID(t.Type)]

\* the loop of BTFStructParser and BTFUnionParser over t.Members
ParseMembers(ms) ==
    [j \in DOMAIN ms |-> [Name |-> ms[j].Name, Type |-> GetTypeID(ms[j].Type)]]

\* membersMap[member.Name] = btfMember, in declaration order
MembersMapOf(members) ==
    [n \in {members[j].Name : j \in DOMAIN members} |->
        members[Last({j \in DOMAIN members : members[j].Name = n})]]

BTFStructParser(t) ==
    LET members == ParseMembers(t.Members)
    IN  [TypeName |-> "struct", Name |-> t.Name,
         MembersMap |-> IF isAsMap THEN MembersMapOf(members) ELSE EmptyMap,
         Members |-> IF isAsMap THEN <<>> ELSE members]

BTFUnionParser(t) ==
    LET members == ParseMembers(t.Members)
    IN  [TypeName |-> "union", Name |-> t.Name,
         MembersMap |-> IF isAsMap THEN MembersMapOf(members) ELSE EmptyMap,
         Members |-> IF isAsMap THEN <<>> ELSE members]

ValuesMapFirstWins(values) ==
    [v \in {values[j].Value : j \in DOMAIN values} |->
        values[CHOOSE j \in DOMAIN values :
                 /\ values[j].Value = v
                 /\ \A k \in DOMAIN values : values[k].Value = v => j <= k]]

\* valuesMap[value.Value] = btfValue, in declaration order
ValuesMapOf(values) ==
    [v \in {values[j].Value : j \in DOMAIN values} |->
        values[Last({j \in DOMAIN values : values[j].Value = v})]]

BTFEnumParser(t) ==
    LET values == [j \in DOMAIN t.Values |->
                     [Name |-> t.Values[j].Name, Value |-> t.Values[j].Value]]
    IN  [TypeName |-> "enum", Name |-> t.Name,
         ValuesMap |-> IF isAsMap THEN ValuesMapOf(values) ELSE EmptyMap,
         Values |-> IF isAsMap THEN <<>> ELSE values]

BTFFwdParser(t) == [TypeName |-> "fwd", Name |-> t.Name]

BTFTypeDefParser(t) ==
    [TypeName |-> "typedef", Name |-> t.Name, Type |-> GetTypeID(t.Type)]

BTFVolatileParser(t) == [TypeName |-> "volatile", Type |-> GetTypeID(t.Type)]

BTFConstParser(t) == [TypeName |-> "const", Type |-> GetTypeID(t.Type)]

BTFRestrictParser(t) == [TypeName |-> "restrict", Type |-> GetTypeID(t.Type)]

BTFFuncParser(t) ==
    [TypeName |-> "func", Name |-> t.Name, Type |-> GetTypeID(t.Type)]

BTFFuncProtoParser(t) ==
    [TypeName |-> "funcproto", Return |-> GetTypeID(t.Return),
     Params |-> [j \in DOMAIN t.Params |->
                   [Name |-> t.Params[j].Name, Type |-> GetTypeID(t.Params[j].Type)]]]

BTFVarParser(t) ==
    [TypeName |-> "var", Name |-> t.Name, Type |-> GetTypeID(t.Type)]

BTFDatasecParser(t) ==
    [TypeName |-> "datasec", Name |-> t.Name,
     Vars |-> [j \in DOMAIN t.Vars |-> [Type |-> GetTypeID(t.Vars[j].Type)]]]

BTFFloatParser(t) == [TypeName |-> "float", Name |-> t.Name]

\* the panic of the type switch's default case
UnknownType == [TypeName |-> "panic"]

BTFTypeParser(t) ==
    CASE t.kind = "Void" -> BTFVoidParser(t)
      [] t.kind = "Int" -> BTFIntParser(t)
      [] t.kind = "Pointer" -> BTFPointerParser(t)
      [] t.kind = "Array" -> BTFArrayParser(t)
      [] t.kind = "Struct" -> BTFStructParser(t)
      [] t.kind = "Union" -> BTFUnionParser(t)
      [] t.kind = "Enum" -> BTFEnumParser(t)
      [] t.kind = "Fwd" -> BTFFwdParser(t)
      [] t.kind = "Typedef" -> BTFTypeDefParser(t)
      [] t.kind = "Volatile" -> BTFVolatileParser(t)
      [] t.kind = "Const" -> BTFConstParser(t)
      [] t.kind = "Restrict" -> BTFRestrictParser(t)
      [] t.kind = "Func" -> BTFFuncParser(t)
      [] t.kind = "FuncProto" -> BTFFuncProtoParser(t)
      [] t.kind = "Var" -> BTFVarParser(t)
      [] t.kind = "Datasec" -> BTFDatasecParser(t)
      [] t.kind = "Float" -> BTFFloatParser(t)
      [] OTHER -> UnknownType

\* GetDependencies of an exported node: the lists it can return.  Ranging
\* over a Go map visits the entries in an unspecified order, so the map form
\* of a struct or union has one list per order.
MemberDeps(v) ==
    IF isAsMap
    THEN {[j \in DOMAIN p |-> v.MembersMap[p[j]].Type] : p \in Perms(DOMAIN v.MembersMap)}
    ELSE {[j \in DOMAIN v.Members |-> v.Members[j].Type]}

GetDependencies(v) ==
    CASE v.TypeName \in {"void", "int", "enum", "fwd", "float"} -> {<<>>}
      [] v.TypeName = "pointer" -> {<<v.TargetType>>}
      [] v.TypeName = "array" -> {<<v.IndexType, v.IndexType>>}
      [] v.TypeName \in {"struct", "union"} -> MemberDeps(v)
      [] v.TypeName \in {"typedef", "volatile", "const", "restrict", "func", "var"} ->
            {<<v.Type>>}
      [] v.TypeName = "funcproto" ->
            {<<v.Return>> \o [j \in DOMAIN v.Params |-> v.Params[j].Type]}
      [] v.TypeName = "datasec" -> {[j \in DOMAIN v.Vars |-> v.Vars[j].Type]}

(***************************************************************************)
(* json.Marshal of the exported nodes, by their struct tags: a JSON object *)
(* is a function from its keys; an omitempty field is left out when its    *)
(* slice or map is empty; a map's keys are written as strings.             *)
(***************************************************************************)
OmitEmpty(key, value) ==
    IF DOMAIN value = {} THEN EmptyMap ELSE (key :> value)

MarshalMember(m) == [name |-> m.Name, type |-> m.Type]

MarshalValue(e) == [name |-> e.Name, value |-> e.Value]

MarshalAggregate(v) ==
    [type_name |-> v.TypeName, name |-> v.Name]
    @@ OmitEmpty("members_map",
                 [n \in DOMAIN v.MembersMap |-> MarshalMember(v.MembersMap[n])])
    @@ OmitEmpty("members",
                 [j \in DOMAIN v.Members |-> MarshalMember(v.Members[j])])

MarshalEnum(v) ==
    [type_name |-> v.TypeName, name |-> v.Name]
    @@ OmitEmpty("values_map",
                 [s \in {ToString(k) : k \in DOMAIN v.ValuesMap} |->
                     MarshalValue(v.ValuesMap[CHOOSE k \in DOMAIN v.ValuesMap :
                                                ToString(k) = s])])
    @@ OmitEmpty("values",
                 [j \in DOMAIN v.Values |-> MarshalValue(v.Values[j])])

MarshalNode(v) ==
    CASE v.TypeName \in {"struct", "union"} -> MarshalAggregate(v)
      [] v.TypeName = "enum" -> MarshalEnum(v)
      [] v.TypeName = "void" -> [type_name |-> "void"]
      [] v.TypeName \in {"int", "fwd", "float"} ->
            [type_name |-> v.TypeName, name |-> v.Name]
      [] v.TypeName = "pointer" ->
            [type_name |-> "pointer", target_type |-> v.TargetType]
      [] v.TypeName = "array" ->
            [type_name |-> "array", index_type |-> v.IndexType,
             elem_type |-> v.ElemType]
      [] v.TypeName \in {"volatile", "const", "restrict"} ->
            [type_name |-> v.TypeName, type |-> v.Type]
      [] v.TypeName \in {"typedef", "func", "var"} ->
            [type_name |-> v.TypeName, name |-> v.Name, type |-> v.Type]
      [] v.TypeName = "funcproto" ->
            [type_name |-> "funcproto", return |-> v.Return,
             params |-> [j \in DOMAIN v.Params |-> MarshalMember(v.Params[j])]]
      [] v.TypeName = "datasec" ->
            [type_name |-> "datasec", name |-> v.Name,
             vars |-> [j \in DOMAIN v.Vars |-> [type |-> v.Vars[j].Type]]]

\* json.Marshal of ReadAllBTFType's list
MarshalList(ts) == [j \in DOMAIN ts |-> MarshalNode(ts[j])]

\* json.Marshal of WalkForTargetTypes' map
MarshalMap(rs) ==
    [s \in {ToString(k) : k \in DOMAIN rs} |->
        MarshalNode(rs[CHOOSE k \in DOMAIN rs : ToString(k) = s])]

\* no <fileName>.json has been written
NoOutput == [written |-> FALSE]

\* DumpAll: the document in <fileName>.json
DumpAll(doc) == [written |-> TRUE, json |-> doc]

(***************************************************************************)
(* The run: main dispatches on -target; WalkForTargetTypes resolves every  *)
(* target, then runs its worklist loop; ReadAllBTFType iterates the store; *)
(* DumpAll writes what either returns.  A panic ends the process.          *)
(***************************************************************************)
\* main's branch on *targetTypes == ""
EntryPoint(targets) == IF targets = <<>> THEN "read" ELSE "resolve"

\* the body of WalkForTargetTypes' first loop: strings.Cut on ":", then the
\* lookup; a target is <<name>> or <<category, name>>
ResolveTarget(target) ==
    IF Len(target) = 2
    THEN LET key == NameToBTFType(target[1])
         IN  IF key = "panic" THEN [err |-> "BadCategory", id |-> 0]
             ELSE TypeByName(target[2], key)
    ELSE AnyTypeByName(target[1])

\* the invocation counter of BTFTypeParser, per ID
Converted(counts, i) ==
    [counts EXCEPT ![i] = IF @ < MaxConversions THEN @ + 1 ELSE @]

\* results[i] = convertedType
Insert(rs, i, v) == [k \in DOMAIN rs \cup {i} |-> IF k = i THEN v ELSE rs[k]]

\* queue = queue[1:]
Dequeue(q) == Tail(q)

EnqueueFirstOnly(q, deps, rs) ==
    q \o SelectSeq(IF deps = <<>> THEN <<>> ELSE <<Head(deps)>>,
                   LAMBDA dep : dep \notin DOMAIN rs)

RECURSIVE EnqueueUnlessQueued(_, _, _)
EnqueueUnlessQueued(q, deps, rs) ==
    IF deps = <<>> THEN q
    ELSE EnqueueUnlessQueued(IF \E j \in DOMAIN q : q[j] = Head(deps)
                             THEN q ELSE Append(q, Head(deps)),
                             Tail(deps), rs)

\* the loop over deps: append each one that is no key of results
Enqueue(q, deps, rs) == q \o SelectSeq(deps, LAMBDA dep : dep \notin DOMAIN rs)

WalkLoopEndsEarly(q) == Len(q) <= 1

\* the worklist loop ends: len(queue) == 0
WalkLoopEnds(q) == Len(q) = 0

Panic(why) ==
    /\ pc' = "panic"
    /\ panicked' = why

Resolve ==
    /\ pc = "resolve"
    /\ LET found == ResolveTarget(targetTypes[nextTarget])
       IN  IF found.err # ""
           THEN /\ Panic(found.err)
                /\ UNCHANGED <<nextTarget, queue>>
           ELSE /\ queue' = Append(queue, TypeID(found.id).id)
                /\ nextTarget' = nextTarget + 1
                /\ pc' = IF nextTarget = Len(targetTypes) THEN "walk" ELSE "resolve"
                /\ UNCHANGED panicked
    /\ UNCHANGED <<store, isDereference, isAsMap, targetTypes, results, iter,
                   types, conversions, output>>

WalkStep ==
    /\ pc = "walk"
    /\ ~WalkLoopEnds(queue)
    /\ LET i == Head(queue)
           convertedType == BTFTypeParser(TypeByID(i))
       IN  /\ conversions' = Converted(conversions, i)
           /\ IF convertedType.TypeName = "panic"
              THEN /\ Panic("UnknownType")
                   /\ queue' = Dequeue(queue)
                   /\ UNCHANGED results
              ELSE /\ results' = Insert(results, i, convertedType)
                   /\ \E deps \in GetDependencies(convertedType) :
                         queue' = Enqueue(Dequeue(queue), deps, results')
                   /\ UNCHANGED <<pc, panicked>>
    /\ UNCHANGED <<store, isDereference, isAsMap, targetTypes, nextTarget, iter,
                   types, output>>

WalkReturn ==
    /\ pc = "walk"
    /\ WalkLoopEnds(queue)
    /\ output' = DumpAll(MarshalMap(results))
    /\ pc' = "done"
    /\ UNCHANGED <<store, isDereference, isAsMap, targetTypes, nextTarget, queue,
                   results, iter, types, conversions, panicked>>

AppendFront(ts, v) == <<v>> \o ts

\* types = append(types, btfType)
AppendType(ts, v) == Append(ts, v)

ReadStep ==
    /\ pc = "read"
    /\ iter < NumTypes
    /\ LET btfType == BTFTypeParser(store[iter])
       IN  /\ conversions' = Converted(conversions, iter)
           /\ iter' = iter + 1
           /\ IF btfType.TypeName = "panic"
              THEN /\ Panic("UnknownType")
                   /\ UNCHANGED types
              ELSE /\ types' = AppendType(types, btfType)
                   /\ UNCHANGED <<pc, panicked>>
    /\ UNCHANGED <<store, isDereference, isAsMap, targetTypes, nextTarget, queue,
                   results, output>>

ReadReturn ==
    /\ pc = "read"
    /\ iter = NumTypes
    /\ output' = DumpAll(MarshalList(types))
    /\ pc' = "done"
    /\ UNCHANGED <<store, isDereference, isAsMap, targetTypes, nextTarget, queue,
                   results, iter, types, conversions, panicked>>

Next == Resolve \/ WalkStep \/ WalkReturn \/ ReadStep \/ ReadReturn

(***************************************************************************)
(* The inputs: the stores a loaded BTF blob can give, the flags, and the   *)
(* -target lists.  A layout gives, per type ID, the nodes drawn for it.    *)
(***************************************************************************)
Names == <<"a", "b", "c", "d", "e", "f", "g", "h">>

NameOf(i) == Names[i]

MemberNames == <<"m1", "m2", "m3", "m4">>

Void == [kind |-> "Void"]

Named(kind, nm) == {[kind |-> kind, Name |-> nm]}

OneRef(kind) == {[kind |-> kind, Type |-> t] : t \in TypeIDs}

NamedOneRef(kind, nm) == {[kind |-> kind, Name |-> nm, Type |-> t] : t \in TypeIDs}

Pointers == {[kind |-> "Pointer", Target |-> t] : t \in TypeIDs}

ArraysOver(refs) == {[kind |-> "Array", Index |-> i, Type |-> e] : i, e \in refs}

Arrays == ArraysOver(TypeIDs)

Lists(S) == UNION {[1 .. n -> S] : n \in 0 .. MaxMembers}

\* member lists whose j-th member is named by its position
PositionalMembersOver(refs) ==
    {[j \in DOMAIN ts |-> [Name |-> MemberNames[j], Type |-> ts[j]]] : ts \in Lists(refs)}

PositionalMembers == PositionalMembersOver(TypeIDs)

Aggregates(kind, nm, members) ==
    {[kind |-> kind, Name |-> nm, Members |-> ms] : ms \in members}

Enums(nm, values) == {[kind |-> "Enum", Name |-> nm, Values |-> vs] : vs \in values}

FuncProtos(refs) ==
    {[kind |-> "FuncProto", Return |-> r, Params |-> ps] :
        r \in refs, ps \in PositionalMembersOver(refs)}

Datasecs(nm, refs) ==
    {[kind |-> "Datasec", Name |-> nm, Vars |-> vs] : vs \in Lists([Type : refs])}

\* a node of a category BTFTypeParser's switch has no case for
DeclTags == {[kind |-> "declTag", Type |-> t] : t \in TypeIDs}

RECURSIVE SeqProduct(_, _)
SeqProduct(layout, n) ==
    IF n = 0 THEN {<<>>}
    ELSE {Append(s, x) : s \in SeqProduct(layout, n - 1), x \in layout[n - 1]}

Stores(layout) == {[i \in TypeIDs |-> s[i + 1]] : s \in SeqProduct(layout, NumTypes)}

TargetLists(pool) == UNION {[1 .. n -> pool] : n \in 0 .. MaxTargets}

InitWith(stores, derefs, asMaps, targetLists) ==
    /\ store \in stores
    /\ isDereference \in derefs
    /\ isAsMap \in asMaps
    /\ targetTypes \in targetLists
    /\ pc = EntryPoint(targetTypes)
    /\ nextTarget = 1
    /\ queue = <<>>
    /\ results = EmptyMap
    /\ iter = 0
    /\ types = <<>>
    /\ conversions = [i \in TypeIDs |-> 0]
    /\ panicked = ""
    /\ output = NoOutput

\* named roots, pointers and arrays, structs: the reference graphs of the
\* closure walk, cycles and self-references included
ClosureLayout ==
    [i \in TypeIDs |->
        IF i = 0 THEN {Void}
        ELSE IF i % 3 = 1
             THEN Named("Int", NameOf(i)) \cup NamedOneRef("Typedef", NameOf(i))
        ELSE IF i % 3 = 2 THEN Pointers \cup Arrays
        ELSE Aggregates("Struct", NameOf(i), PositionalMembers)]

Init ==
    InitWith(Stores(ClosureLayout), BOOLEAN, BOOLEAN,
             TargetLists({<<"a">>, <<"c">>, <<"zz">>}))

Spec == Init /\ [][Next]_vars

\* the stores of Init with one root, named once or twice
InitWalk ==
    InitWith(Stores(ClosureLayout), {FALSE}, {FALSE}, TargetLists({<<"c">>}))

\* a sequential process always takes its next step
FairSpec == InitWalk /\ [][Next]_vars /\ WF_vars(Next)

(***************************************************************************)
(* Closure mode                                                            *)
(***************************************************************************)
ClosureMode == targetTypes # <<>>

Range(f) == {f[x] : x \in DOMAIN f}

\* the IDs GetDependencies returns for the converted node store[k]
DepSet(k) ==
    LET v == BTFTypeParser(store[k])
    IN  IF v.TypeName = "panic" THEN {}
        ELSE UNION {Range(deps) : deps \in GetDependencies(v)}

\* the smallest set that contains S and the dependencies of its members
RECURSIVE ClosureOf(_)
ClosureOf(S) ==
    LET more == S \cup UNION {DepSet(k) : k \in S}
    IN  IF more = S THEN S ELSE ClosureOf(more)

\* the resolved root IDs of the run
Roots == {ResolveTarget(targetTypes[j]).id : j \in DOMAIN targetTypes}

\* C1: when WalkForTargetTypes has returned, the keys of the result mapping
\* are exactly the smallest set that contains the resolved roots and, with
\* every key, the IDs GetDependencies returns for its converted node.
ClosureComplete ==
    (pc = "done" /\ ClosureMode) => DOMAIN results = ClosureOf(Roots)

\* a finished walk that found more than its roots and less than the store
ClosureCompleteWitness ==
    /\ pc = "done"
    /\ ClosureMode
    /\ Roots # DOMAIN results
    /\ 0 \notin DOMAIN results
    /\ \E k \in DOMAIN results : store[k].kind = "Struct" /\ Len(store[k].Members) = 2

\* C2: every ID that is a key of the result mapping has been passed to
\* BTFTypeParser exactly once.
NoDuplicateConversion ==
    ClosureMode => \A i \in DOMAIN results : conversions[i] = 1

\* the type IDs an exported node carries in its fields
CarriedIDs(v) ==
    CASE v.TypeName \in {"void", "int", "enum", "fwd", "float"} -> {}
      [] v.TypeName = "pointer" -> {v.TargetType}
      [] v.TypeName = "array" -> {v.IndexType, v.ElemType}
      [] v.TypeName \in {"struct", "union"} ->
            {v.Members[j].Type : j \in DOMAIN v.Members}
            \cup {v.MembersMap[n].Type : n \in DOMAIN v.MembersMap}
      [] v.TypeName \in {"typedef", "volatile", "const", "restrict", "func", "var"} ->
            {v.Type}
      [] v.TypeName = "funcproto" ->
            {v.Return} \cup {v.Params[j].Type : j \in DOMAIN v.Params}
      [] v.TypeName = "datasec" -> {v.Vars[j].Type : j \in DOMAIN v.Vars}

\* C9: when closure mode has ended, every type ID carried in a field of an
\* exported node of the result mapping is a key of the result mapping.
SelfContained ==
    (pc = "done" /\ ClosureMode) =>
        \A k \in DOMAIN results : CarriedIDs(results[k]) \subseteq DOMAIN results

\* C10: once every root is resolved, the worklist loop reaches the state
\* where the worklist is empty and has returned.
WalkTerminates == (pc = "walk") ~> (pc = "done" /\ queue = <<>>)

\* a finished walk over a node that lists itself and over a cycle of two
WalkTerminatesWitness ==
    /\ pc = "done"
    /\ ClosureMode
    /\ \E k \in DOMAIN results : k \in DepSet(k)
    /\ \E j, k \in DOMAIN results : j # k /\ k \in DepSet(j) /\ j \in DepSet(k)
    /\ \E k \in DOMAIN results : conversions[k] > 1

(***************************************************************************)
(* Both modes over every category                                          *)
(***************************************************************************)
\* every category the reader yields: leaves, the single-reference
\* categories (one of them outside BTFTypeParser's switch), and the
\* categories with lists, which refer to void or to the node before them
AllKindsLayout ==
    [i \in TypeIDs |->
        IF i = 0 THEN {Void}
        ELSE IF i % 3 = 1
             THEN Named("Int", NameOf(i)) \cup Named("Fwd", NameOf(i))
                  \cup Named("Float", NameOf(i))
                  \cup Enums(NameOf(i), Lists([Name : {"x"}, Value : {0}]))
        ELSE IF i % 3 = 2
             THEN Pointers \cup OneRef("Volatile") \cup OneRef("Const")
                  \cup OneRef("Restrict") \cup NamedOneRef("Typedef", NameOf(i))
                  \cup NamedOneRef("Func", NameOf(i)) \cup NamedOneRef("Var", NameOf(i))
                  \cup DeclTags
        ELSE ArraysOver({0, i - 1})
             \cup Aggregates("Struct", NameOf(i), PositionalMembersOver({0, i - 1}))
             \cup Aggregates("Union", NameOf(i), PositionalMembersOver({0, i - 1}))
             \cup FuncProtos({0, i - 1}) \cup Datasecs(NameOf(i), {0, i - 1})]

InitAll ==
    InitWith(Stores(AllKindsLayout), BOOLEAN, BOOLEAN,
             TargetLists({<<"c">>, <<"zz">>}))

SpecAll == InitAll /\ [][Next]_vars

\* C3: in full-dump mode every node the iterator has yielded so far was
\* converted exactly once and sits, converted, at its position of the list;
\* at the end the list is as long as the store and DumpAll writes it.
FullDumpInOrder ==
    (~ClosureMode /\ pc # "panic") =>
        /\ Len(types) = iter
        /\ \A i \in TypeIDs :
              /\ conversions[i] = IF i < iter THEN 1 ELSE 0
              /\ i < iter => types[i + 1] = BTFTypeParser(store[i])
        /\ pc = "done" =>
              /\ Len(types) = NumTypes
              /\ output = DumpAll([j \in 1 .. NumTypes |->
                                     MarshalNode(BTFTypeParser(store[j - 1]))])

\* a finished full dump of a store of four different categories
FullDumpInOrderWitness ==
    /\ ~ClosureMode
    /\ pc = "done"
    /\ output.written
    /\ Len(output.json) = NumTypes
    /\ \A i, j \in TypeIDs : i # j => store[i].kind # store[j].kind

\* every ID a finished traversal of its mode has to have covered is covered
TraversalComplete ==
    IF ClosureMode
    THEN /\ nextTarget = Len(targetTypes) + 1
         /\ queue = <<>>
         /\ Roots \subseteq DOMAIN results
         /\ \A k \in DOMAIN results : DepSet(k) \subseteq DOMAIN results
    ELSE /\ iter = NumTypes
         /\ Len(types) = NumTypes

\* C7: the output is written only by a run whose traversal is complete and
\* that has not panicked; a run that has panicked has written nothing (and
\* takes no further step); in closure mode nothing is converted before
\* every target is resolved.
NoPartialOutput ==
    /\ output.written => (pc = "done" /\ panicked = "" /\ TraversalComplete)
    /\ panicked # "" => (pc = "panic" /\ ~output.written /\ ~ENABLED Next)
    /\ (ClosureMode /\ \E i \in TypeIDs : conversions[i] > 0) =>
          nextTarget = Len(targetTypes) + 1

\* a walk that converted nodes and then met a node BTFTypeParser panics on
NoPartialOutputWitness ==
    /\ ClosureMode
    /\ panicked = "UnknownType"
    /\ DOMAIN results # {}
    /\ ~output.written

(***************************************************************************)
(* The exported document                                                   *)
(***************************************************************************)
\* the exported JSON object of store node k, when the output holds one
Exported(k) ==
    IF ~output.written THEN {}
    ELSE IF ClosureMode
         THEN IF ToString(k) \in DOMAIN output.json
              THEN {output.json[ToString(k)]} ELSE {}
         ELSE {output.json[k + 1]}

\* aggregates and enums, with members and values that share names or numbers
ShapeLayout ==
    [i \in TypeIDs |->
        IF i = 0 THEN {Void}
        ELSE IF i % 3 = 1
             THEN Enums(NameOf(i), Lists([Name : {"x", "y"}, Value : {0, 1}]))
        ELSE IF i % 3 = 2
             THEN Aggregates("Struct", NameOf(i), PositionalMembersOver({0, i - 1}))
                  \cup Aggregates("Union", NameOf(i), PositionalMembersOver({0, i - 1}))
        ELSE Named("Int", NameOf(i))]

InitShape ==
    InitWith(Stores(ShapeLayout), {FALSE}, BOOLEAN,
             TargetLists({<<"a">>, <<"b">>}))

SpecShape == InitShape /\ [][Next]_vars

\* C4: every exported struct, union and enum has exactly one of its list
\* form and its mapping form, the mapping form iff -as-map is set.
ShapeExclusive ==
    \A k \in TypeIDs : \A d \in Exported(k) :
        /\ d.type_name \in {"struct", "union"} =>
              /\ ("members_map" \in DOMAIN d) = isAsMap
              /\ ("members" \in DOMAIN d) = ~isAsMap
        /\ d.type_name = "enum" =>
              /\ ("values_map" \in DOMAIN d) = isAsMap
              /\ ("values" \in DOMAIN d) = ~isAsMap

\* the enums exported in mapping form that declare at least one value
MappedEnums ==
    {k \in TypeIDs : /\ isAsMap
                     /\ store[k].kind = "Enum"
                     /\ store[k].Values # <<>>
                     /\ Exported(k) # {}}

DistinctNames(values) ==
    \A i, j \in DOMAIN values : i # j => values[i].Name # values[j].Name

\* C8 as stated: the values_map of an enum with pairwise distinct value
\* names has one entry per declared value, under the value's name.
EnumMapKeyedByName ==
    \A k \in MappedEnums : \A d \in Exported(k) :
        DistinctNames(store[k].Values) =>
            /\ "values_map" \in DOMAIN d
            /\ DOMAIN d.values_map = {store[k].Values[j].Name : j \in DOMAIN store[k].Values}
            /\ \A n \in DOMAIN d.values_map : d.values_map[n].name = n

\* C8 as amended: the values_map is keyed by the decimal string of each
\* value's number; the entry under a number is the last declared value with
\* that number, so pairwise distinct numbers give one entry per value.
EnumMapKeyedByValue ==
    \A k \in MappedEnums : \A d \in Exported(k) :
        LET values == store[k].Values
        IN  /\ "values_map" \in DOMAIN d
            /\ DOMAIN d.values_map = {ToString(values[j].Value) : j \in DOMAIN values}
            /\ \A j \in DOMAIN values :
                  LET entry == d.values_map[ToString(values[j].Value)]
                      last == Last({i \in DOMAIN values : values[i].Value = values[j].Value})
                  IN  /\ entry.value = values[j].Value
                      /\ entry.name = values[last].Name
            /\ (\A i, j \in DOMAIN values : i # j => values[i].Value # values[j].Value)
                  => Cardinality(DOMAIN d.values_map) = Len(values)

\* an exported enum in mapping form whose two value names share a number
EnumMapKeyedByValueWitness ==
    \E k \in MappedEnums :
        /\ Len(store[k].Values) = 2
        /\ store[k].Values[1].Name # store[k].Values[2].Name
        /\ store[k].Values[1].Value = store[k].Values[2].Value

(***************************************************************************)
(* The ID resolution rule                                                  *)
(***************************************************************************)
\* typedefs and qualifiers around ints, referred to by pointers and variables
DerefLayout ==
    [i \in TypeIDs |->
        IF i = 0 THEN {Void}
        ELSE IF i % 3 = 1
             THEN Named("Int", NameOf(i)) \cup NamedOneRef("Typedef", NameOf(i))
        ELSE IF i % 3 = 2
             THEN OneRef("Const") \cup OneRef("Volatile") \cup OneRef("Restrict")
                  \cup NamedOneRef("Typedef", NameOf(i))
        ELSE Pointers \cup NamedOneRef("Var", NameOf(i))]

InitDeref ==
    InitWith(Stores(DerefLayout), BOOLEAN, {FALSE},
             TargetLists({<<"a">>, <<"c">>}))

SpecDeref == InitDeref /\ [][Next]_vars

Wrappers == {"Const", "Volatile", "Restrict", "Typedef"}

\* the first node that is no wrapper on the chain from r, or CycleRef when
\* the chain only runs through wrappers
RECURSIVE FirstNonWrapper(_, _)
FirstNonWrapper(r, seen) ==
    IF store[r].kind \notin Wrappers THEN r
    ELSE IF r \in seen THEN CycleRef
    ELSE FirstNonWrapper(store[r].Type, seen \cup {r})

\* the nodes converted so far, each with its exported node
ConvertedNodes ==
    {<<k, results[k]>> : k \in DOMAIN results}
    \cup {<<j - 1, types[j]>> : j \in DOMAIN types}

\* the references of node t, each with the ID exported for it in v
References(t, v) ==
    CASE t.kind = "Pointer" -> {<<t.Target, v.TargetType>>}
      [] t.kind = "Array" -> {<<t.Index, v.IndexType>>, <<t.Type, v.ElemType>>}
      [] t.kind \in Wrappers \cup {"Func", "Var"} -> {<<t.Type, v.Type>>}
      [] t.kind \in {"Struct", "Union"} ->
            {<<t.Members[j].Type, v.Members[j].Type>> : j \in DOMAIN v.Members}
      [] t.kind = "FuncProto" ->
            {<<t.Return, v.Return>>}
            \cup {<<t.Params[j].Type, v.Params[j].Type>> : j \in DOMAIN v.Params}
      [] t.kind = "Datasec" -> {<<t.Vars[j].Type, v.Vars[j].Type>> : j \in DOMAIN v.Vars}
      [] OTHER -> {}

AllReferences == UNION {References(store[c[1]], c[2]) : c \in ConvertedNodes}

CategoryKind ==
    [void |-> "Void", int |-> "Int", pointer |-> "Pointer", array |-> "Array",
     struct |-> "Struct", union |-> "Union", enum |-> "Enum", fwd |-> "Fwd",
     typedef |-> "Typedef", volatile |-> "Volatile", const |-> "Const",
     restrict |-> "Restrict", func |-> "Func", funcproto |-> "FuncProto",
     var |-> "Var", datasec |-> "Datasec", float |-> "Float"]

KnownCategories == DOMAIN CategoryKind

\* the category tokens drawn: the seventeen categories, the two spellings
\* NameToBTFType has of its own, a padded token and an unknown one
Tokens == KnownCategories \cup {"Datasec", "Float", " struct ", "bogus"}

\* named nodes of every named category, without references of interest
NamedNodes(nm) ==
    Named("Int", nm) \cup Named("Fwd", nm) \cup Named("Float", nm)
    \cup Enums(nm, {<<>>}) \cup Aggregates("Struct", nm, {<<>>})
    \cup Aggregates("Union", nm, {<<>>})
    \cup {[kind |-> "Datasec", Name |-> nm, Vars |-> <<>>]}
    \cup {[kind |-> k, Name |-> nm, Type |-> 0] : k \in {"Typedef", "Func", "Var"}}

\* nodes of the categories that carry no name
UnnamedNodes ==
    {[kind |-> "Pointer", Target |-> 0], [kind |-> "Array", Index |-> 0, Type |-> 0],
     [kind |-> "FuncProto", Return |-> 0, Params |-> <<>>]}
    \cup {[kind |-> k, Type |-> 0] : k \in Qualifiers}

\* two named nodes, which may share their name, around an unnamed one
ResolveLayout ==
    [i \in TypeIDs |->
        IF i = 0 THEN {Void}
        ELSE IF i % 3 = 1 THEN NamedNodes("a")
        ELSE IF i % 3 = 2 THEN UnnamedNodes
        ELSE NamedNodes("a") \cup NamedNodes("b")]

\* the target lists whose last target is any category:name or bare name
\* and whose earlier targets are bare names
ResolveTargets ==
    LET last == {<<tok, "a">> : tok \in Tokens} \cup {<<"a">>, <<"b">>}
    IN  {<<>>} \cup UNION {{Append(ts, t) : ts \in [1 .. n -> {<<"a">>, <<"b">>}], t \in last} :
                          n \in 0 .. (MaxTargets - 1)}

\* as in one C translation unit, no two nodes of a category share a name
UniquePerCategory(s) ==
    \A i, j \in TypeIDs :
        (i # j /\ s[i].kind = s[j].kind /\ "Name" \in DOMAIN s[i]) => s[i].Name # s[j].Name

InitResolve ==
    InitWith({s \in Stores(ResolveLayout) : UniquePerCategory(s)}, {FALSE}, {FALSE},
             ResolveTargets)

SpecResolve == InitResolve /\ [][Next]_vars

\* the targets resolved so far are the first ones, their IDs the queue's
\* first entries, as long as the worklist loop has not begun to pop
RootsInQueue ==
    /\ ClosureMode
    /\ pc \in {"resolve", "walk", "panic"}
    /\ panicked # "UnknownType"
    /\ \A i \in TypeIDs : conversions[i] = 0

\* C6: a category:name target fails with BadCategory iff its category
\* token, trimmed, is none of the seventeen categories; with one of them
\* the resolver ends with the ID of the node of that category and name, or
\* with NotFound.
CategoryHandling ==
    RootsInQueue =>
        /\ \A j \in 1 .. (nextTarget - 1) :
              Len(targetTypes[j]) = 2 =>
                 LET category == TrimSpace(targetTypes[j][1])
                 IN  /\ category \in KnownCategories
                     /\ store[queue[j]].kind = CategoryKind[category]
                     /\ store[queue[j]].Name = targetTypes[j][2]
        /\ (pc = "panic" /\ Len(targetTypes[nextTarget]) = 2) =>
              LET category == TrimSpace(targetTypes[nextTarget][1])
              IN  /\ (panicked = "BadCategory") = (category \notin KnownCategories)
                  /\ category \in KnownCategories => panicked = "NotFound"

(***************************************************************************)
(* References the reader cannot resolve                                    *)
(***************************************************************************)
\* the ID-of lookup GetTypeID makes for reference r fails
Unresolvable(r) ==
    ~TypeID(IF isDereference THEN UnderlyingType(r) ELSE r).ok

\* C11: no converted node carries a reference whose ID-of lookup failed;
\* the conversion of such a node ends the run in a resolution error.
UnresolvedNeverExported ==
    \A c \in ConvertedNodes : \A p \in References(store[c[1]], c[2]) :
        ~Unresolvable(p[1])

(***************************************************************************)
(* The dependencies of structs and unions                                  *)
(***************************************************************************)
\* member lists whose members may be anonymous or share a name
SharedNameMembersOver(refs) == Lists([Name : {"", "m1"}, Type : refs])

\* a struct or union over two nodes of its own
MemberLayout ==
    [i \in TypeIDs |->
        IF i = 0 THEN {Void}
        ELSE IF i % 3 = 1 THEN Named("Int", NameOf(i)) \cup Pointers
        ELSE IF i % 3 = 2 THEN Named("Float", NameOf(i)) \cup OneRef("Const")
        ELSE Aggregates("Struct", NameOf(i), SharedNameMembersOver({0, i - 2, i - 1}))
             \cup Aggregates("Union", NameOf(i), SharedNameMembersOver({0, i - 2, i - 1}))]

InitMember ==
    InitWith(Stores(MemberLayout), {FALSE}, BOOLEAN,
             TargetLists({<<"a">>, <<"c">>}))

SpecMember == InitMember /\ [][Next]_vars

\* the resolved type IDs of the members store node k declares
MemberTypeIDs(k) ==
    {GetTypeID(store[k].Members[j].Type) : j \in DOMAIN store[k].Members}

\* the dependencies of node k when those of a struct or union are its
\* declared members' types
DeclaredDepSet(k) ==
    IF store[k].kind \in {"Struct", "Union"} THEN MemberTypeIDs(k) ELSE DepSet(k)

RECURSIVE DeclaredClosureOf(_)
DeclaredClosureOf(S) ==
    LET more == S \cup UNION {DeclaredDepSet(k) : k \in S}
    IN  IF more = S THEN S ELSE DeclaredClosureOf(more)

\* C12: under either setting of -as-map the dependencies of a converted
\* struct or union are one per declared member, their set the set of the
\* members' resolved type IDs, so the keys of a finished walk are those
\* reached through the declared members, whatever the flag.
MemberDependencyRule ==
    /\ \A k \in DOMAIN results :
          store[k].kind \in {"Struct", "Union"} =>
             \A deps \in GetDependencies(results[k]) :
                /\ Len(deps) = Len(store[k].Members)
                /\ Range(deps) = MemberTypeIDs(k)
    /\ (pc = "done" /\ ClosureMode) => DOMAIN results = DeclaredClosureOf(Roots)

====
